---- MODULE Spec2Model ----
(***************************************************************************)
(* Model of src/bindable.ts: the bindable() factory and the bindTo method  *)
(* of the cell it returns, together with the two kinds of source a cell    *)
(* can be bound to (an rxjs Observable, an Angular Signal), the asap       *)
(* scheduler that relays stream notifications, the effect that relays      *)
(* signal changes, and the DestroyRef scopes that end a binding.           *)
(*                                                                         *)
(* One cell is followed from before its construction.  Its environment     *)
(* (the subject behind the stream, the source signal, the scopes, the      *)
(* owner writing to the cell, the caller mutating the options object) acts *)
(* nondeterministically.                                                   *)
(***************************************************************************)
EXTENDS Naturals, Sequences, FiniteSets

\* ------------------------------------------------------------- bounds
MaxEmit == 1        \* next() calls on the subject behind the stream
MaxSignalSets == 1  \* set() calls on the source signal
MaxTake == 1        \* largest n of a take(n) limiting the stream

\* ------------------------------------------------------------- values
Values == {"a", "b"}
\* The value the owner writes: told apart from the values of the sources.
OwnerValues == {"o"}
InitialValue == "init"
NoValue == "none"

\* The scopes whose teardown can end a binding: the DestroyRef passed as
\* options.destroyRef, and the DestroyRef of the captured Injector.
Scopes == {"dref", "inj"}
NoHandle == "none"

\* options of bindable(): which fields are set (undefined = FALSE).
Options == [destroyRef : BOOLEAN, injector : BOOLEAN, manualCleanup : BOOLEAN]
\* The subjects a stream handed to bindTo can be built on, as they are when
\* bindTo is called: state "active" | "completed" | "errored", and the last
\* value sent (the current value of a BehaviorSubject).
Subjects == [state : {"active", "completed", "errored"}, cur : Values]
NoSubject == [state |-> "none", cur |-> NoValue]
\* The arguments of a bindTo call: the kind of source, and whether the call
\* is made inside a computed or an effect.
Calls == [src : {"stream", "signal"}, reactive : BOOLEAN]
NoCall == [src |-> "none", reactive |-> FALSE]
\* The errors of bindTo: lines 41-45, 46-48, 50-56 and 67-71, and the error
\* of the library when the captured injector has been destroyed.
Errors == {"reactiveContext", "alreadyBound", "noInjector", "noDestroyRef",
           "destroyedInjector"}
NoError == "none"
NoOptions == [destroyRef |-> FALSE, injector |-> FALSE, manualCleanup |-> FALSE]

VARIABLES
  phase,        \* "init" | "created" | "ctorFailed": position of the caller
  ctorAmbient,  \* bindable() was called in an injection context
  ctorOptions,  \* the options as they were when bindable() was called
  options,      \* the options object now (the closure keeps a reference)
  injector,     \* line 30: "undefined" | "optInj" | "ambInj"
  value,        \* the value of bindableSignal
  bound,        \* line 37
  destroyed,    \* [Scopes -> BOOLEAN]: the scope's teardown has fired
  bindKind,     \* "none" | "stream" | "signal": what bindTo installed
  handle,       \* the scope bindTo registered the binding with, or NoHandle
  subj,         \* the subject behind the stream: [state, cur]
  takeLeft,     \* emissions a take(n) on the stream still lets through; 0 = no take
  upstream,     \* subscription to the source: "none"|"open"|"completed"|"errored"|"unsubscribed"
  sink,         \* the subscriber of line 84: "none" | "open" | "closed"
  asapQueue,    \* notifications scheduled on the asapScheduler, oldest first
  sigValue,     \* the value of the source signal
  effectState,  \* "none" | "scheduled" | "idle" | "destroyed"
  emitted,      \* history: values the bound stream emitted to the subscription
  written,      \* history: values the binding wrote to the cell
  valueAtBind,  \* history: the cell's value when the successful bindTo was called
  turnRun,      \* history: a scheduler turn ran since the successful bindTo
  ownerDirty,   \* history: the owner wrote the cell after the binding's last write
  nSubs,        \* history: subscriptions and effects bindTo has installed
  bindResult,   \* "ok" | "throw": this state was produced by a bindTo call
                \* that returned | threw; "none": by another operation
  call,         \* the bindTo call that produced this state: [src, reactive],
                \* or NoCall when another operation did
  error,        \* the error the bindTo call that produced this state threw,
                \* or NoError
  lateEvent,    \* history: the bound source sent a value or was set after the
                \* teardown of the binding's scope had fired
  nEmit, nSet

vars == <<phase, ctorAmbient, ctorOptions, options, injector, value, bound,
          destroyed, bindKind, handle, subj, takeLeft, upstream, sink,
          asapQueue, sigValue, effectState, emitted, written, valueAtBind,
          turnRun, ownerDirty, nSubs, bindResult, call, error, lateEvent,
          nEmit, nSet>>

cellVars == <<value, bound, bindKind, handle, takeLeft, upstream, sink,
              asapQueue, effectState, emitted, written, valueAtBind, turnRun,
              ownerDirty, nSubs, lateEvent>>
ctorVars == <<phase, ctorAmbient, ctorOptions, injector>>
envVars == <<destroyed, subj, sigValue>>
countVars == <<nEmit, nSet>>

Init ==
  /\ phase = "init"
  /\ ctorAmbient = FALSE
  /\ ctorOptions = NoOptions
  /\ options = NoOptions
  /\ injector = "undefined"
  /\ value = NoValue
  /\ bound = FALSE
  /\ destroyed = [s \in Scopes |-> FALSE]
  /\ bindKind = "none"
  /\ handle = NoHandle
  /\ subj = NoSubject
  /\ takeLeft = 0
  /\ upstream = "none"
  /\ sink = "none"
  /\ asapQueue = <<>>
  /\ sigValue = NoValue
  /\ effectState = "none"
  /\ emitted = <<>>
  /\ written = <<>>
  /\ valueAtBind = NoValue
  /\ turnRun = FALSE
  /\ ownerDirty = FALSE
  /\ nSubs = 0
  /\ bindResult = "none"
  /\ call = NoCall
  /\ error = NoError
  /\ lateEvent = FALSE
  /\ nEmit = 0 /\ nSet = 0

\* ------------------------------------------------------- construction

\* Mutant: the check only looks at destroyRef.
assertChecksDestroyRefOnly(o) ==
  o.manualCleanup /\ o.destroyRef

\* Lines 93-106: TRUE when the assertion throws.
assertNoDestroyRefOrInjectorProvidedWithManualCleanup(o) ==
  o.manualCleanup /\ (o.destroyRef \/ o.injector)

\* Mutant: inject(Injector) outside an injection context yields undefined
\* instead of throwing.
captureInjectorLenient(o, ambient) ==
  IF ~o.destroyRef /\ ~o.manualCleanup
    THEN IF o.injector THEN "optInj" ELSE IF ambient THEN "ambInj" ELSE "undefined"
    ELSE "undefined"

\* Mutant: the injector is captured although a destroyRef is given.
captureInjectorDespiteDestroyRef(o, ambient) ==
  IF ~o.manualCleanup
    THEN IF o.injector THEN "optInj" ELSE IF ambient THEN "ambInj" ELSE "throw"
    ELSE "undefined"

\* Mutant: the injector is captured under manual cleanup too.
captureInjectorUnderManual(o, ambient) ==
  IF ~o.destroyRef
    THEN IF o.injector THEN "optInj" ELSE IF ambient THEN "ambInj" ELSE "throw"
    ELSE "undefined"

\* Lines 30-33: the injector the closure captures; "throw" when inject()
\* is called outside an injection context.
captureInjector(o, ambient) ==
  IF ~o.destroyRef /\ ~o.manualCleanup
    THEN IF o.injector THEN "optInj" ELSE IF ambient THEN "ambInj" ELSE "throw"
    ELSE "undefined"

\* Lines 20-35, 90: bindable(initialValue, options).
bindable(o, ambient) ==
  /\ phase = "init"
  /\ bindResult' = "none" /\ call' = NoCall /\ error' = NoError
  /\ UNCHANGED lateEvent
  /\ ctorAmbient' = ambient
  /\ ctorOptions' = o
  /\ options' = o
  /\ IF assertNoDestroyRefOrInjectorProvidedWithManualCleanup(o)
          \/ captureInjector(o, ambient) = "throw"
       THEN /\ phase' = "ctorFailed"
            /\ UNCHANGED <<injector, value>>
       ELSE /\ phase' = "created"
            /\ injector' = captureInjector(o, ambient)
            /\ value' = InitialValue
  /\ UNCHANGED <<bound, bindKind, handle, takeLeft, upstream, sink, asapQueue,
                 effectState, emitted, written, valueAtBind, turnRun,
                 ownerDirty, nSubs>>
  /\ UNCHANGED envVars
  /\ UNCHANGED countVars


\* ------------------------------------------------- stream notifications

Next_(v) == [k |-> "N", v |-> v]
Complete == [k |-> "C", v |-> NoValue]
Error == [k |-> "E", v |-> NoValue]

RECURSIVE nextValues(_)
\* The values of the next-notifications of a sequence, in order.
nextValues(ns) ==
  IF ns = <<>> THEN <<>>
  ELSE IF Head(ns).k = "N" THEN <<Head(ns).v>> \o nextValues(Tail(ns))
  ELSE nextValues(Tail(ns))

\* The state of a subscription after its source sent ns.
upstreamAfter(up, ns) ==
  IF \E i \in 1..Len(ns) : ns[i].k = "C" THEN "completed"
  ELSE IF \E i \in 1..Len(ns) : ns[i].k = "E" THEN "errored"
  ELSE up

\* take(n) on the stream handed to bindTo (line 155 of the tests): what it
\* sends downstream for a notification n while it lets `left` more values
\* through (0: the stream has no take).
takeOp(left, n) ==
  IF n.k = "N" /\ left = 1 THEN <<n, Complete>> ELSE <<n>>

takeLeftAfter(left, n) ==
  IF n.k = "N" /\ left > 0 THEN left - 1 ELSE left

\* What the source sends synchronously when it is subscribed to: a
\* BehaviorSubject (replay) sends its current value, a terminated subject
\* its termination.
subscribeNotifs(s, replay, take) ==
  IF s.state = "completed" THEN <<Complete>>
  ELSE IF s.state = "errored" THEN <<Error>>
  ELSE IF replay THEN takeOp(take, Next_(s.cur))
  ELSE <<>>

\* Mutant: the notifications are passed on synchronously.
observeOnSync(ns) == [deferred |-> <<>>, immediate |-> ns]

\* Mutant: only the values are scheduled; a termination is passed on
\* synchronously.
observeOnNextOnly(ns) ==
  [deferred |-> SelectSeq(ns, LAMBDA n : n.k = "N"),
   immediate |-> SelectSeq(ns, LAMBDA n : n.k # "N")]

\* Line 81, observeOn(asapScheduler): every notification, next, complete
\* and error alike, is scheduled; none is passed on synchronously.
observeOn(ns) == [deferred |-> ns, immediate |-> <<>>]

\* Mutant: a newly scheduled task replaces the tasks still waiting.
asapScheduleLatestOnly(q, ns) == IF ns = <<>> THEN q ELSE ns

\* Mutant: the newest task runs first.
asapScheduleLifo(q, ns) == ns \o q

\* The asapScheduler queues its tasks in the order they were scheduled.
asapSchedule(q, ns) == q \o ns

\* Line 84: the subscriber's reaction to one notification.  c is the part
\* of the cell the subscriber touches.
onNotification(c, n) ==
  IF c.sink # "open" THEN c
  ELSE IF n.k = "N"
    THEN [c EXCEPT !.value = n.v, !.written = Append(c.written, n.v),
                   !.ownerDirty = FALSE]
    ELSE [c EXCEPT !.sink = "closed"]

RECURSIVE drain(_, _)
\* The subscriber's reaction to a sequence of notifications, in order.
drain(ns, c) ==
  IF ns = <<>> THEN c ELSE drain(Tail(ns), onNotification(c, Head(ns)))

\* The source sends ns to the pipe of lines 76-84 whose subscriber and
\* queue are c and q.
relay(c, q, ns) ==
  [c |-> drain(observeOn(ns).immediate, c),
   q |-> asapSchedule(q, observeOn(ns).deferred)]

\* ----------------------------------------------------------------- bindTo

\* Mutant: the reactive context is not looked at.
reactiveContextIgnored(c) == FALSE

\* Lines 41-45: assertNotInReactiveContext throws inside a computed or an
\* effect.
inReactiveContext(c) == c.reactive

\* Mutant: the bound flag is not consulted.
alreadyBoundIgnored(b) == FALSE

\* Line 46.
alreadyBound(b) == b

\* Mutant: a signal is bound whether or not an injector was captured.
injectorMissingIgnored(inj) == FALSE

\* Line 50.
injectorMissing(inj) == inj = "undefined"

\* Lines 62-74: the scope whose teardown ends the subscription; NoHandle
\* under manual cleanup (pipe()), "throw" when no DestroyRef is found.
resolveDestroyRef(o, inj) ==
  IF o.manualCleanup THEN NoHandle
  ELSE IF o.destroyRef THEN "dref"
  ELSE IF inj # "undefined" THEN "inj"
  ELSE "throw"

isDestroyed(h) == h \in Scopes /\ destroyed[h]

\* Mutant: registering with a scope that has been torn down does nothing.
neverClosedAtSubscribe(h) == FALSE

\* Lines 73 and 76-84: takeUntilDestroyed(h) subscribes to the teardown of
\* h before the source; when h has already fired the subscriber is closed
\* there and then, and the source is not subscribed to.
closedAtSubscribe(h) == isDestroyed(h)

\* Mutant: the bound flag is set before the checks are made.
bindToThrowsAfterMarking(c, e) ==
  /\ bindResult' = "throw"
  /\ call' = c
  /\ error' = e
  /\ bound' = TRUE
  /\ UNCHANGED <<value, bindKind, handle, takeLeft, upstream, sink, asapQueue,
                 effectState, emitted, written, valueAtBind, turnRun,
                 ownerDirty, nSubs, lateEvent>>
  /\ UNCHANGED <<ctorVars, options, envVars, countVars>>

\* A throwing bindTo call.
bindToThrows(c, e) ==
  /\ bindResult' = "throw"
  /\ call' = c
  /\ error' = e
  /\ UNCHANGED <<cellVars, ctorVars, options, envVars, countVars>>

\* Lines 57-60 and 86-87: the effect is created, scheduled for its first
\* run, and registered with the injector's DestroyRef; a DestroyRef that
\* has already fired leaves it destroyed.
bindToSignal(c, v) ==
  /\ bound' = TRUE
  /\ call' = c
  /\ sigValue' = v
  /\ bindKind' = "signal"
  /\ handle' = "inj"
  /\ effectState' = IF isDestroyed("inj") THEN "destroyed" ELSE "scheduled"
  /\ valueAtBind' = value
  /\ turnRun' = FALSE
  /\ ownerDirty' = FALSE
  /\ nSubs' = nSubs + 1
  /\ bindResult' = "ok" /\ error' = NoError
  /\ lateEvent' = FALSE
  /\ UNCHANGED <<value, takeLeft, upstream, sink, asapQueue, emitted, written>>
  /\ UNCHANGED <<ctorVars, options, destroyed, subj, countVars>>

\* Lines 73-87: subscribe through observeOn and the termination operator.
\* takeUntilDestroyed(h) registers with h before the source is subscribed
\* to; if h has already fired the subscriber is closed and the source is
\* never subscribed to.
bindToStream(c, h, s, replay, take) ==
  LET ns == IF closedAtSubscribe(h) THEN <<>> ELSE subscribeNotifs(s, replay, take)
      c0 == [value |-> value, written |-> written, ownerDirty |-> FALSE,
             sink |-> IF closedAtSubscribe(h) THEN "closed" ELSE "open"]
      r == relay(c0, <<>>, ns)
  IN /\ bound' = TRUE
     /\ call' = c
     /\ bindKind' = "stream"
     /\ subj' = s
     /\ handle' = h
     /\ upstream' = IF closedAtSubscribe(h) THEN "unsubscribed"
                    ELSE upstreamAfter("open", ns)
     /\ takeLeft' = IF ns # <<>> THEN takeLeftAfter(take, Head(ns)) ELSE take
     /\ emitted' = nextValues(ns)
     /\ asapQueue' = r.q
     /\ sink' = r.c.sink
     /\ value' = r.c.value
     /\ written' = r.c.written
     /\ ownerDirty' = r.c.ownerDirty
     /\ valueAtBind' = value
     /\ turnRun' = FALSE
     /\ nSubs' = nSubs + 1
     /\ bindResult' = "ok" /\ error' = NoError
     /\ lateEvent' = FALSE
     /\ UNCHANGED effectState
     /\ UNCHANGED <<ctorVars, options, destroyed, sigValue, countVars>>

\* Lines 38-88: bindTo(source), called as c says.  The source is a signal holding v, or a stream
\* built on subject s (replay: a BehaviorSubject) and limited by take(n)
\* when n > 0.  Using an injector whose scope has been destroyed throws
\* or not, depending on the kind of injector (injector.get on a destroyed
\* environment injector, DestroyRef.onDestroy on a destroyed view): both
\* outcomes are kept.
bindTo(c) ==
  /\ phase = "created"
  /\ IF inReactiveContext(c) THEN bindToThrows(c, "reactiveContext")
     ELSE IF alreadyBound(bound) THEN bindToThrows(c, "alreadyBound")
     ELSE IF c.src = "signal"
       THEN IF injectorMissing(injector) THEN bindToThrows(c, "noInjector")
            ELSE \/ isDestroyed("inj") /\ bindToThrows(c, "destroyedInjector")
                 \/ \E v \in Values : bindToSignal(c, v)
       ELSE LET h == resolveDestroyRef(options, injector)
            IN IF h = "throw" THEN bindToThrows(c, "noDestroyRef")
               ELSE \/ h = "inj" /\ isDestroyed("inj")
                       /\ bindToThrows(c, "destroyedInjector")
                    \/ \E s \in Subjects, replay \in BOOLEAN, take \in 0..MaxTake :
                         bindToStream(c, h, s, replay, take)

\* ------------------------------------------------------ the stream source

\* The source sends ns (already limited by take) to the subscription:
\* the pipe relays them; a termination ends the subscription.
sourceSends(ns) ==
  LET c0 == [value |-> value, written |-> written, ownerDirty |-> ownerDirty,
             sink |-> sink]
      r == relay(c0, asapQueue, ns)
  IN /\ emitted' = emitted \o nextValues(ns)
     /\ upstream' = upstreamAfter(upstream, ns)
     /\ asapQueue' = r.q
     /\ sink' = r.c.sink
     /\ value' = r.c.value
     /\ written' = r.c.written
     /\ ownerDirty' = r.c.ownerDirty

\* subject.next(v): a terminated subject ignores it, and a subscription
\* that has ended does not receive it.
sourceNext(v) ==
  /\ bindKind = "stream"
  /\ nEmit < MaxEmit
  /\ nEmit' = nEmit + 1
  /\ bindResult' = "none" /\ call' = NoCall /\ error' = NoError
  /\ lateEvent' = (lateEvent \/ (subj.state = "active" /\ isDestroyed(handle)))
  /\ subj' = IF subj.state = "active" THEN [subj EXCEPT !.cur = v] ELSE subj
  /\ IF subj.state = "active" /\ upstream = "open"
       THEN /\ sourceSends(takeOp(takeLeft, Next_(v)))
            /\ takeLeft' = takeLeftAfter(takeLeft, Next_(v))
       ELSE UNCHANGED <<emitted, upstream, asapQueue, sink, value, written,
                        ownerDirty, takeLeft>>
  /\ UNCHANGED <<bound, bindKind, handle, effectState, valueAtBind, turnRun,
                 nSubs>>
  /\ UNCHANGED <<ctorVars, options, destroyed, sigValue, nSet>>

\* subject.complete() / subject.error(e).
sourceTerminate(n) ==
  /\ bindKind = "stream"
  /\ subj.state = "active"
  /\ bindResult' = "none" /\ call' = NoCall /\ error' = NoError
  /\ UNCHANGED lateEvent
  /\ subj' = [subj EXCEPT !.state = IF n.k = "C" THEN "completed" ELSE "errored"]
  /\ IF upstream = "open"
       THEN sourceSends(<<n>>)
       ELSE UNCHANGED <<emitted, upstream, asapQueue, sink, value, written,
                        ownerDirty>>
  /\ UNCHANGED <<bound, bindKind, handle, effectState, valueAtBind, turnRun,
                 nSubs, takeLeft>>
  /\ UNCHANGED <<ctorVars, options, destroyed, sigValue, countVars>>

\* One turn of the asapScheduler: the scheduled notifications reach the
\* subscriber of line 84 in the order of the queue.
flush ==
  LET c0 == [value |-> value, written |-> written, ownerDirty |-> ownerDirty,
             sink |-> sink]
      c == drain(asapQueue, c0)
  IN /\ asapQueue # <<>>
     /\ bindResult' = "none" /\ call' = NoCall /\ error' = NoError
     /\ UNCHANGED lateEvent
     /\ asapQueue' = <<>>
     /\ value' = c.value
     /\ written' = c.written
     /\ ownerDirty' = c.ownerDirty
     /\ sink' = c.sink
     /\ turnRun' = TRUE
     /\ UNCHANGED <<bound, bindKind, handle, takeLeft, upstream, effectState,
                    emitted, valueAtBind, nSubs>>
     /\ UNCHANGED <<ctorVars, options, envVars, countVars>>

\* ------------------------------------------------------ the signal source

\* Mutant: a change of the source does not schedule the effect.
effectNeverNotified(e, changed) == e

\* The effect of line 57 read source(): a change of the source's value
\* schedules it again.  A set() to an equal value notifies nobody.
effectNotified(e, changed) ==
  IF changed /\ e = "idle" THEN "scheduled" ELSE e

\* source.set(v).
signalSet(v) ==
  /\ bindKind = "signal"
  /\ nSet < MaxSignalSets
  /\ nSet' = nSet + 1
  /\ bindResult' = "none" /\ call' = NoCall /\ error' = NoError
  /\ lateEvent' = (lateEvent \/ (v # sigValue /\ isDestroyed(handle)))
  /\ sigValue' = v
  /\ effectState' = effectNotified(effectState, v # sigValue)
  /\ UNCHANGED <<value, bound, bindKind, handle, takeLeft, upstream, sink,
                 asapQueue, emitted, written, valueAtBind, turnRun,
                 ownerDirty, nSubs>>
  /\ UNCHANGED <<ctorVars, options, destroyed, subj, nEmit>>

\* Line 57: a scheduled effect runs, bindableSignal.set(source()).
runEffect ==
  /\ effectState = "scheduled"
  /\ bindResult' = "none" /\ call' = NoCall /\ error' = NoError
  /\ UNCHANGED lateEvent
  /\ effectState' = "idle"
  /\ value' = sigValue
  /\ written' = Append(written, sigValue)
  /\ ownerDirty' = FALSE
  /\ turnRun' = TRUE
  /\ UNCHANGED <<bound, bindKind, handle, takeLeft, upstream, sink, asapQueue,
                 emitted, valueAtBind, nSubs>>
  /\ UNCHANGED <<ctorVars, options, envVars, countVars>>

\* ---------------------------------------------------------------- teardown

\* Mutant: the termination operator ignores the teardown.
sinkSurvivesDestroy(k) == k

\* Line 73, takeUntilDestroyed: the teardown completes the subscriber.
sinkAfterDestroy(k) == IF k = "open" THEN "closed" ELSE k

\* Mutant: the termination operator sits upstream of observeOn: its
\* completion is scheduled behind the deliveries already waiting.
takeUntilBeforeObserveOn(k, q) ==
  [sink |-> k, q |-> IF k = "open" THEN Append(q, Complete) ELSE q]

\* Lines 76-84: the termination operator sits downstream of observeOn.
\* The teardown completes the subscriber at once, and the finalisation of
\* the closed subscriber unsubscribes the deliveries observeOn scheduled.
pipeAfterDestroy(k, q) ==
  [sink |-> sinkAfterDestroy(k),
   q |-> IF k = "open" /\ sinkAfterDestroy(k) = "closed" THEN <<>> ELSE q]

\* Mutant: the effect survives the teardown.
effectSurvivesDestroy(e) == e

\* Lines 57-60: the effect is destroyed with the injector's DestroyRef.
effectAfterDestroy(e) == IF e = "none" THEN e ELSE "destroyed"

\* The teardown of scope s fires.  A completed subscriber unsubscribes:
\* the source is let go and the scheduled notifications are cancelled.
teardown(s) ==
  /\ phase = "created"
  /\ \/ s = "dref" /\ (options.destroyRef \/ handle = "dref")
     \/ s = "inj" /\ injector # "undefined"
  /\ ~destroyed[s]
  /\ bindResult' = "none" /\ call' = NoCall /\ error' = NoError
  /\ UNCHANGED lateEvent
  /\ destroyed' = [destroyed EXCEPT ![s] = TRUE]
  /\ IF handle = s /\ bindKind = "stream"
       THEN /\ sink' = pipeAfterDestroy(sink, asapQueue).sink
            /\ asapQueue' = pipeAfterDestroy(sink, asapQueue).q
            /\ upstream' = IF sink = "open" /\ sink' = "closed" /\ upstream = "open"
                             THEN "unsubscribed" ELSE upstream
            /\ UNCHANGED effectState
       ELSE IF handle = s /\ bindKind = "signal"
         THEN /\ effectState' = effectAfterDestroy(effectState)
              /\ UNCHANGED <<sink, asapQueue, upstream>>
         ELSE UNCHANGED <<sink, asapQueue, upstream, effectState>>
  /\ UNCHANGED <<value, bound, bindKind, handle, takeLeft, emitted, written,
                 valueAtBind, turnRun, ownerDirty, nSubs>>
  /\ UNCHANGED <<ctorVars, options, subj, sigValue, countVars>>

\* ------------------------------------------------------ owner and caller

\* The owner writes the cell directly (the cell is a WritableSignal).
ownerSet(v) ==
  /\ phase = "created"
  /\ bindResult' = "none" /\ call' = NoCall /\ error' = NoError
  /\ UNCHANGED lateEvent
  /\ value' = v
  /\ ownerDirty' = TRUE
  /\ UNCHANGED <<bound, bindKind, handle, takeLeft, upstream, sink, asapQueue,
                 effectState, emitted, written, valueAtBind, turnRun, nSubs>>
  /\ UNCHANGED <<ctorVars, options, envVars, countVars>>

\* The caller changes a field of the options object it passed to
\* bindable(); lines 63 and 66 read the object when bindTo is called.
mutateOptions(o) ==
  /\ phase = "created"
  /\ ~bound
  /\ o # options
  /\ o.injector = options.injector
  /\ options' = o
  /\ bindResult' = "none" /\ call' = NoCall /\ error' = NoError
  /\ UNCHANGED <<cellVars, ctorVars, envVars, countVars>>

Next ==
  \/ \E o \in Options, ambient \in BOOLEAN : bindable(o, ambient)
  \/ \E c \in Calls : bindTo(c)
  \/ \E v \in Values : sourceNext(v)
  \/ \E n \in {Complete, Error} : sourceTerminate(n)
  \/ flush
  \/ \E v \in Values : signalSet(v)
  \/ runEffect
  \/ \E s \in Scopes : teardown(s)
  \/ \E v \in OwnerValues : ownerSet(v)
  \/ \E o \in Options : mutateOptions(o)

Spec == Init /\ [][Next]_vars

\* ----------------------------------------------------------------- claims

last(q) == q[Len(q)]
isPrefix(p, q) == Len(p) <= Len(q) /\ \A i \in 1..Len(p) : p[i] = q[i]
onlyOwnerChangesValue == value' # value => (value' \in OwnerValues /\ ownerDirty')
installedUnchanged ==
  UNCHANGED <<nSubs, bindKind, handle, sink, upstream, asapQueue, effectState,
              emitted, written, value>>

\* C1: the bound flag starts false, becomes true with the first successful
\* bindTo and never returns to false; every bindTo call on a bound cell
\* throws, and leaves the installed subscription or effect, and their
\* number, as they were.
C1_SingleBind ==
  /\ bound = FALSE
  /\ [][ /\ bound => bound'
         /\ bindResult' = "ok" => (~bound /\ bound' /\ nSubs' = nSubs + 1)
         /\ (bound /\ bindResult' # "none") =>
              (bindResult' = "throw" /\ installedUnchanged)
         /\ nSubs' # nSubs => bindResult' = "ok" ]_vars

\* A bound cell on which a second bindTo has just thrown.
C1_Witness ==
  bound /\ bindResult = "throw" /\ nSubs = 1

\* C2: from the return of a successful bindTo until a scheduler turn runs
\* (the owner not writing), the cell holds the value it had before bindTo
\* and the binding has written nothing, also when the source sent a value
\* at subscription.
C2_InitialValueRetained ==
  (bound /\ ~turnRun /\ ~ownerDirty) => (value = valueAtBind /\ written = <<>>)

\* bindTo has just returned from subscribing to a stream that sent a value
\* at subscription: the value waits in the queue.
C2_Witness ==
  /\ bindResult = "ok" /\ bindKind = "stream"
  /\ asapQueue # <<>> /\ Head(asapQueue).k = "N"
  /\ value = InitialValue /\ Head(asapQueue).v # value

\* C3: for a stream binding whose scope has not been torn down and whose
\* source has not terminated, whenever the scheduler is quiescent every
\* value the source sent has been written, and the cell holds the last of
\* them unless the owner wrote after it.
C3_StreamPropagation ==
  (bindKind = "stream" /\ upstream = "open" /\ ~isDestroyed(handle)
     /\ asapQueue = <<>>) =>
    /\ written = emitted
    /\ (emitted # <<>> /\ ~ownerDirty) => value = last(emitted)

\* A live stream binding that has relayed a replayed value and a later,
\* different one.
C3_Witness ==
  /\ bindKind = "stream" /\ upstream = "open" /\ ~isDestroyed(handle)
  /\ asapQueue = <<>> /\ Len(emitted) >= 2 /\ emitted[1] # emitted[2]
  /\ value = last(emitted)

\* C4: the values a stream binding has written are a prefix of the values
\* its source sent.
C4_EmissionOrder ==
  bindKind = "stream" => isPrefix(written, emitted)

\* Two different values sent by the source wait in the queue of one turn.
C4_Witness ==
  /\ bindKind = "stream" /\ Len(asapQueue) >= 2
  /\ asapQueue[1].k = "N" /\ asapQueue[2].k = "N"
  /\ asapQueue[1].v # asapQueue[2].v

\* C5: for a signal binding whose scope has not been torn down, once the
\* scheduled effect has run the cell holds the source's value, unless the
\* owner wrote after it; the effect was scheduled by bindTo and is
\* scheduled again by every change of the source.
C5_SignalPropagation ==
  /\ (bindKind = "signal" /\ effectState = "idle" /\ ~ownerDirty) =>
       value = sigValue
  /\ (bindKind = "signal" /\ ~isDestroyed("inj")) =>
       /\ effectState \in {"scheduled", "idle"}
       /\ effectState = "idle" => (written # <<>> /\ last(written) = sigValue)

\* The cell follows a set() of the bound signal.
C5_Witness ==
  /\ bindKind = "signal" /\ effectState = "idle" /\ injector # "undefined"
  /\ Len(written) = 2 /\ written[1] # written[2] /\ value = sigValue

\* The scope the resolution order of line 66 chooses.
chosenHandle == IF options.destroyRef THEN "dref" ELSE "inj"

\* C6: a stream binding without manual cleanup is registered with the
\* scope the resolution order chooses, and once that scope's teardown has
\* fired the binding writes nothing more: only the owner changes the cell.
C6_TeardownStopsStream ==
  /\ []((bindKind = "stream" /\ ~options.manualCleanup) =>
          (handle = chosenHandle /\ (isDestroyed(handle) => sink = "closed")))
  /\ [][ (bindKind = "stream" /\ ~options.manualCleanup
            /\ isDestroyed(chosenHandle)) =>
           (written' = written /\ onlyOwnerChangesValue) ]_vars

\* After the teardown the subject sent a value the cell did not take: the
\* cell still holds the last value written before.
C6_Witness ==
  /\ bindKind = "stream" /\ isDestroyed(handle) /\ lateEvent
  /\ written # <<>> /\ value = last(written) /\ subj.cur # value

\* C7: once the teardown of the injector's scope has fired, the effect of
\* a signal binding is destroyed and the binding writes nothing more: only
\* the owner changes the cell.
C7_TeardownStopsSignal ==
  /\ []((bindKind = "signal" /\ isDestroyed("inj")) => effectState = "destroyed")
  /\ [][ (bindKind = "signal" /\ isDestroyed("inj")) =>
           (written' = written /\ onlyOwnerChangesValue) ]_vars

\* After the teardown the source signal was set to a value the cell did
\* not take.
C7_Witness ==
  /\ bindKind = "signal" /\ isDestroyed("inj") /\ lateEvent
  /\ written # <<>> /\ value = last(written) /\ sigValue # value

\* C8: when the source of a stream binding has completed or errored, it
\* sends nothing more; if no teardown intervened, every value it sent
\* before is written once the scheduler is quiescent, and from then on only
\* the owner changes the cell.
C8_NaturalTermination ==
  /\ []((bindKind = "stream" /\ upstream \in {"completed", "errored"}
           /\ asapQueue = <<>> /\ ~isDestroyed(handle)) =>
          (written = emitted /\ sink = "closed"))
  /\ [][ (bindKind = "stream" /\ upstream \in {"completed", "errored"}) =>
           /\ emitted' = emitted
           /\ asapQueue = <<>> => (written' = written /\ onlyOwnerChangesValue) ]_vars

\* Manual cleanup and a take-limited stream: the take has completed, its
\* values are written, and the subject behind it has since sent a value
\* the cell did not take.
C8_Witness ==
  /\ bindKind = "stream" /\ handle = NoHandle /\ upstream = "completed"
  /\ subj.state = "active" /\ asapQueue = <<>> /\ sink = "closed"
  /\ written # <<>> /\ written = emitted /\ value = last(written)
  /\ subj.cur # value

\* C9: bindable() called with manualCleanup and a destroyRef, or with
\* manualCleanup and an injector, throws and creates no cell, in an
\* injection context or not.
C9_ContradictionRejected ==
  (phase # "init" /\ ctorOptions.manualCleanup
     /\ (ctorOptions.destroyRef \/ ctorOptions.injector)) =>
    (phase = "ctorFailed" /\ value = NoValue /\ ~bound)

\* manualCleanup with an injector, inside an injection context.
C9_Witness ==
  /\ phase = "ctorFailed" /\ ctorAmbient
  /\ ctorOptions.manualCleanup /\ ctorOptions.injector /\ ~ctorOptions.destroyRef

suppliedCount(o) ==
  Cardinality({f \in {"destroyRef", "injector", "manualCleanup"} : o[f]})

\* C10: outside an injection context bindable() throws when none of
\* destroyRef, injector and manualCleanup is supplied, and returns a cell
\* holding the initial value when exactly one of them is.
C10_AmbientRequirement ==
  (phase # "init" /\ ~ctorAmbient) =>
    /\ suppliedCount(ctorOptions) = 0 => phase = "ctorFailed"
    /\ suppliedCount(ctorOptions) = 1 =>
         /\ phase = "created"
         /\ (~bound /\ ~ownerDirty) => value = InitialValue

\* A cell created outside an injection context with a destroyRef alone.
C10_Witness ==
  /\ phase = "created" /\ ~ctorAmbient /\ suppliedCount(ctorOptions) = 1
  /\ ctorOptions.destroyRef /\ value = InitialValue /\ ~bound
  /\ options = ctorOptions

\* A step that is a bindTo call with a source of kind k.
isCall(k) == call'.src = k
\* What bindTo can install, and the cell's value and flag.
bindingUnchanged ==
  UNCHANGED <<value, bound, nSubs, bindKind, handle, sink, upstream, asapQueue,
              effectState, emitted, written>>

\* C11: on a cell created with manualCleanup, in an injection context or
\* not, every bindTo call with a signal throws, leaves the value and the
\* bound flag as they were, and no effect ever exists.
C11_ManualRejectsSignal ==
  /\ [](ctorOptions.manualCleanup => (effectState = "none" /\ bindKind # "signal"))
  /\ [][ (ctorOptions.manualCleanup /\ isCall("signal")) =>
           (bindResult' = "throw" /\ bindingUnchanged) ]_vars

\* An unbound cell created with manualCleanup inside an injection context,
\* on which bindTo with a signal, called outside a reactive context, has
\* just thrown.
C11_Witness ==
  /\ ctorOptions.manualCleanup /\ ctorAmbient /\ phase = "created"
  /\ call.src = "signal" /\ ~call.reactive /\ ~bound
  /\ bindResult = "throw" /\ value = InitialValue /\ effectState = "none"

\* This state was produced by a bindTo call with a signal, made outside a
\* reactive context on a cell created without manualCleanup.
signalCallOnAutoCell ==
  /\ phase = "created" /\ ~ctorOptions.manualCleanup
  /\ call.src = "signal" /\ ~call.reactive
\* The call threw although the cell was not bound.
threwUnbound == bindResult = "throw" /\ ~bound

\* C12 as stated: on a cell created without manualCleanup, bindTo with a
\* signal fails only if neither a destroyRef nor an injector is available,
\* so it succeeds on a cell that was given a destroyRef.
C12_AsStated ==
  (signalCallOnAutoCell /\ threwUnbound /\ \A s \in Scopes : ~destroyed[s]) =>
    (~ctorOptions.destroyRef /\ injector = "undefined")

\* C12, amended: on a cell created without manualCleanup, bindTo with a
\* signal needs the captured injector, and a destroyRef does not stand in
\* for it.  The call throws whenever no injector was captured, which is
\* exactly when a destroyRef was given to bindable(); on an unbound cell
\* it throws only then, or when the injector's scope is already destroyed.
C12_SignalNeedsInjector ==
  signalCallOnAutoCell =>
    /\ injector = "undefined" <=> ctorOptions.destroyRef
    /\ injector = "undefined" => bindResult = "throw"
    /\ threwUnbound => (injector = "undefined" \/ destroyed["inj"])

\* bindTo with a signal has just thrown on an unbound cell that was given
\* a destroyRef alone, no scope being destroyed.
C12_Witness ==
  /\ signalCallOnAutoCell /\ threwUnbound
  /\ ctorOptions.destroyRef /\ ~ctorOptions.injector /\ ~ctorAmbient
  /\ \A s \in Scopes : ~destroyed[s]

\* C13: a cell given a destroyRef at construction has no captured
\* injector, whatever else it was given and wherever it was created; every
\* bindTo call with a signal on it throws and installs no effect.
C13_DestroyRefRejectsSignal ==
  /\ []((phase = "created" /\ ctorOptions.destroyRef) =>
          (injector = "undefined" /\ effectState = "none" /\ bindKind # "signal"))
  /\ [][ (ctorOptions.destroyRef /\ isCall("signal")) =>
           (bindResult' = "throw" /\ bindingUnchanged) ]_vars

\* The cell was given a destroyRef and an injector inside an injection
\* context, and bindTo with a signal has just thrown at line 51.
C13_Witness ==
  /\ phase = "created" /\ ctorOptions.destroyRef /\ ctorOptions.injector
  /\ ctorAmbient /\ call.src = "signal" /\ ~call.reactive /\ threwUnbound
  /\ effectState = "none"

\* A bindTo call that returns.
bindToSucceeds == \E c \in Calls : bindTo(c) /\ bindResult' = "ok"
\* A stream is a legal source for the cell as it is: line 66 finds a
\* DestroyRef, or manual cleanup is asked for.
streamLegal == resolveDestroyRef(options, injector) # "throw"

\* C14: a bindTo call that throws leaves the bound flag, the value and
\* everything bindTo can install as they were; after a throw on an unbound
\* cell for which a stream is a legal source, a bindTo call can still
\* succeed.
C14_FailedBindKeepsState ==
  /\ []((threwUnbound /\ streamLegal) => ENABLED bindToSucceeds)
  /\ [][ bindResult' = "throw" =>
           (bindingUnchanged
              /\ UNCHANGED <<takeLeft, valueAtBind, options, injector, destroyed>>) ]_vars

\* bindTo with a signal has just thrown on an unbound cell that was given
\* a destroyRef; a stream is a legal source for it.
C14_Witness ==
  /\ threwUnbound /\ streamLegal /\ call.src = "signal" /\ ~call.reactive
  /\ options.destroyRef /\ ~destroyed["dref"] /\ value = InitialValue /\ nSubs = 0

\* C15: a cell created with manualCleanup true and bound to a stream has
\* no termination operator in its pipe, and no teardown of a scope touches
\* the subscription, its scheduled deliveries or the source.
C15_ManualNeverCancels ==
  /\ []((ctorOptions.manualCleanup /\ bindKind = "stream") => handle = NoHandle)
  /\ [][ (ctorOptions.manualCleanup /\ bindKind = "stream" /\ destroyed' # destroyed) =>
           UNCHANGED <<sink, asapQueue, upstream, value, written>> ]_vars

\* C16: a bindTo call made inside a computed or an effect throws the error
\* of the reactive-context assertion, whether the cell is bound or not and
\* whatever the source, and installs nothing.
C16_ReactiveGuardFirst ==
  [][ call'.reactive =>
        (bindResult' = "throw" /\ error' = "reactiveContext" /\ bindingUnchanged) ]_vars

\* A reactive-context call with a stream has just thrown on a bound cell.
C16_Witness ==
  /\ call.reactive /\ call.src = "stream" /\ bound /\ bindKind = "signal"
  /\ bindResult = "throw" /\ error = "reactiveContext" /\ nSubs = 1

\* C17: on a cell created without manualCleanup, bindTo with a stream throws
\* and subscribes to nothing when there is no options.destroyRef and no
\* injector to ask for a DestroyRef; and a stream subscription of such a
\* cell is registered with a scope whose teardown unsubscribes it.
C17_NoLeakOnUnresolvableScope ==
  /\ []((phase = "created" /\ ~ctorOptions.manualCleanup /\ bindKind = "stream") =>
          handle \in Scopes)
  /\ [][ (~ctorOptions.manualCleanup /\ isCall("stream") /\ ~bound
            /\ ~options.destroyRef /\ injector = "undefined") =>
           (bindResult' = "throw" /\ bindingUnchanged) ]_vars

\* C18: when the teardown of a stream binding's scope fires, the deliveries
\* still scheduled are cancelled: a value the source sent before the
\* teardown and not yet delivered is never written, and from the teardown
\* on only the owner changes the cell.
C18_InFlightDropped ==
  /\ []((bindKind = "stream" /\ isDestroyed(handle)) => asapQueue = <<>>)
  /\ [][ (bindKind = "stream" /\ handle \in Scopes /\ destroyed'[handle]) =>
           (written' = written /\ onlyOwnerChangesValue) ]_vars

\* The source sent a value before the teardown, the teardown fired before
\* the scheduler turn ran, and the turn is over: the value was not written.
C18_Witness ==
  /\ bindKind = "stream" /\ isDestroyed(handle) /\ ~lateEvent
  /\ emitted # <<>> /\ written = <<>> /\ valueAtBind = InitialValue
  /\ value = InitialValue /\ sink = "closed" /\ asapQueue = <<>>

\* bindTo is called with a stream on an unbound cell whose cleanup scope,
\* as line 66 resolves it, has already been torn down.
streamCallOnDeadScope ==
  /\ isCall("stream") /\ ~call'.reactive /\ ~bound
  /\ isDestroyed(resolveDestroyRef(options, injector))
\* The binding the call leaves: bound, closed, nothing taken from the source.
deadBinding ==
  /\ bindResult' = "ok" /\ bound' /\ bindKind' = "stream"
  /\ sink' = "closed" /\ asapQueue' = <<>> /\ emitted' = <<>>
  /\ written' = <<>> /\ value' = value
\* From the teardown on, nothing of the source reaches the cell.
deadBindingStaysDead ==
  (bindKind = "stream" /\ isDestroyed(handle)) =>
    (emitted' = emitted /\ written' = written /\ onlyOwnerChangesValue)

C20_StrategyFixedAtConstruction ==
  /\ [](bindKind = "stream" => handle = resolveDestroyRef(ctorOptions, injector))
  /\ [][ error' # "noDestroyRef" ]_vars
====
